---- MODULE Spec2Model ----
(***************************************************************************)
(* Model of analyze-initcall-debug.py: the ingestion loop that builds the  *)
(* initcalls / probes maps from a dmesg feed, and the report that follows  *)
(* (peak-concurrency count, probe lane assignment, tables).                *)
(***************************************************************************)
EXTENDS Integers, Sequences, FiniteSets, TLC

\* ---------------------------------------------------------------- constants

ERRCODE_PROBE_DEFER == 517

\* ------------------------------------------------------------------- bounds

\* Lines of the dmesg file.
MaxLines == 3
\* Largest timestamp (microseconds) a line carries.
MaxTime == 1
\* Largest "after N usecs" duration a line carries.
MaxDur == 1

\* Probe lines of a feed whose chart is plotted, their largest timestamp
\* and their largest duration.
MaxPlotLines == 3
MaxPlotTime == 3
MaxPlotDur == 2

Names == {"a", "b"}
\* Names of the probe lines of a feed ("a" is an initcall name as well).
ProbeNames == {"a"}
InitNames == {"/sbin/init"}
Modules == {""}
Texts == {"txt"}
Times == 0..MaxTime
Durations == 0..MaxDur
Retvals == {0, ERRCODE_PROBE_DEFER, -ERRCODE_PROBE_DEFER, -22}
\* random.randint(0, 255) three times; two tags stand for the 2^24 colours.
Colors == {"c1", "c2"}

\* init = None is the empty sequence; init = Init(...) is a one-element one.
None == <<>>

\* ---------------------------------------------------------------- utilities

abs(x) == IF x < 0 THEN -x ELSE x

RECURSIVE SumSeq(_)
SumSeq(s) == IF s = <<>> THEN 0 ELSE Head(s) + SumSeq(Tail(s))

Last(s) == s[Len(s)]

\* ---------------------------------------------------------------------- Run

\* Run.__init__: end_time defaults to -1, duration and retval to 0.
Run(start_time, end_time, duration, retval) ==
  [start_time |-> start_time, end_time |-> end_time, duration |-> duration,
   retval |-> retval, ended |-> (end_time >= 0)]

RunStarted(start_time) == Run(start_time, -1, 0, 0)

\* The end_time, duration and retval setters, applied as addEnd applies them.
RunClose(r, end_time, duration, retval) ==
  [r EXCEPT !.end_time = end_time, !.ended = TRUE,
            !.duration = duration, !.retval = retval]

\* Run.running comparing retval with -ERRCODE_PROBE_DEFER, without abs().
RunRunningNegativeDeferOnly(r) == (~r.ended) \/ r.retval = -ERRCODE_PROBE_DEFER

RunRunning(r) == (~r.ended) \/ abs(r.retval) = ERRCODE_PROBE_DEFER

RunFailed(r) == (r.retval # 0) /\ ~RunRunning(r)

\* ------------------------------------------------------------------- Entity

\* Entity.__init__ with a start time that depends on the colour drawn.
EntityTimedByColor(name, color, start_time, end_time, duration, retval) ==
  [name |-> name, color |-> color,
   runs |-> << Run(IF color = "c1" THEN start_time ELSE start_time + 1,
                   end_time, duration, retval) >>]

\* Entity.__init__: end_time, duration and retval default to 0.
Entity(name, color, start_time, end_time, duration, retval) ==
  [name |-> name, color |-> color,
   runs |-> << Run(start_time, end_time, duration, retval) >>]

EntityDefault(name, color, start_time) == Entity(name, color, start_time, 0, 0, 0)

\* Initcall.__init__ leaving the Run list empty until the return.
InitcallWithoutRun(name, color, start_time, module) ==
  [name |-> name, color |-> color, runs |-> <<>>, module |-> module]

\* Initcall.__init__: super().__init__(name, start_time), then the module.
Initcall(name, color, start_time, module) ==
  [name |-> name, color |-> color,
   runs |-> EntityDefault(name, color, start_time).runs, module |-> module]

\* Probe.__init__ passing start_time for the end as well.
ProbeEndingAtStart(name, color, start_time, duration, retval) ==
  Entity(name, color, start_time, start_time, duration, retval)

\* Probe.__init__: super().__init__(name, start, start + duration, duration, retval).
Probe(name, color, start_time, duration, retval) ==
  Entity(name, color, start_time, start_time + duration, duration, retval)

\* Init.__init__: super().__init__(name, start_time).
InitEntity(name, color, start_time) == EntityDefault(name, color, start_time)

first_start_time(e) == e.runs[1].start_time
last_start_time(e) == Last(e.runs).start_time
first_end_time(e) == e.runs[1].end_time
last_end_time(e) == Last(e.runs).end_time

RunDurations(runs) == [i \in 1..Len(runs) |-> runs[i].duration]

\* Entity.duration reading the latest Run alone.
durationOfLastRun(e) == Last(e.runs).duration

\* Entity.duration
duration(e) == SumSeq(RunDurations(e.runs))

WastedRun(r) == RunFailed(r) \/ abs(r.retval) = ERRCODE_PROBE_DEFER

\* Entity.wasted_time
wasted_time(e) ==
  SumSeq([i \in 1..Len(e.runs) |->
            IF WastedRun(e.runs[i]) THEN e.runs[i].duration ELSE 0])

retval(e) == Last(e.runs).retval
failed(e) == RunFailed(Last(e.runs))
running(e) == RunRunning(Last(e.runs))

\* Entity.running_at
running_at(e, time) ==
  \E i \in 1..Len(e.runs) :
    e.runs[i].start_time < time /\ e.runs[i].end_time > time

addStart(e, start_time) ==
  [e EXCEPT !.runs = Append(@, RunStarted(start_time))]

\* addEnd with the test "end_time > 0": a Run whose end is 0 passes for open.
addEndEndZeroIsOpen(e, end_time, dur, rv) ==
  IF Last(e.runs).end_time > 0
  THEN [e EXCEPT !.runs = Append(@, Run(-1, end_time, dur, rv))]
  ELSE [e EXCEPT !.runs[Len(e.runs)] = RunClose(@, end_time, dur, rv)]

\* addEnd writing the return into the latest Run whether it is open or not.
addEndOverwritingLast(e, end_time, dur, rv) ==
  [e EXCEPT !.runs[Len(e.runs)] = RunClose(@, end_time, dur, rv)]

addEnd(e, end_time, dur, rv) ==
  IF Last(e.runs).end_time >= 0
  THEN [e EXCEPT !.runs = Append(@, Run(-1, end_time, dur, rv))]
  ELSE [e EXCEPT !.runs[Len(e.runs)] = RunClose(@, end_time, dur, rv)]

addRun(e, start_time, end_time, dur, rv) ==
  [e EXCEPT !.runs = Append(@, Run(start_time, end_time, dur, rv))]

\* Probe.deferred_probe_pending
deferred_probe_pending(e) == abs(Last(e.runs).retval) = ERRCODE_PROBE_DEFER

\* Probe.num_deferred_probes
num_deferred_probes(e) ==
  Cardinality({i \in 1..Len(e.runs) : abs(e.runs[i].retval) = ERRCODE_PROBE_DEFER})

\* --------------------------------------------------------------------- maps

\* A dict is the sequence of its values in insertion order, keyed by name.
Keys(m) == {m[i].name : i \in 1..Len(m)}

Has(m, name) == name \in Keys(m)

IndexOf(m, name) == CHOOSE i \in 1..Len(m) : m[i].name = name

Get(m, name) == m[IndexOf(m, name)]

\* m[name] = e for a new key appends; an existing key is updated in place.
Put(m, e) ==
  IF Has(m, e.name) THEN [m EXCEPT ![IndexOf(m, e.name)] = e] ELSE Append(m, e)

\* -------------------------------------------------------------------- state

VARIABLES
  args,          \* [before_init]: the command line
  initcalls,     \* dict name -> Initcall
  probes,        \* dict name -> Probe
  init,          \* None or the Init entity
  version, machine, cmdline,
  lineno,        \* lines of the feed read so far
  line,          \* the line being processed, as the patterns read it
  stderr,        \* what the last step wrote to the diagnostic channel
  pc,            \* position of the script
  max_par_probes,
  slots,         \* dict probe name -> lane
  todo,          \* the (probe, run index) pairs the plot loops have yet to visit
  ypos,
  drawn,         \* the probe rectangles printed: [name, run, ypos]
  twin           \* None, or a second run of the script over the same feed

engine == << initcalls, probes, init, version, machine, cmdline >>

feed == << lineno, line >>

chart == << max_par_probes, slots, todo, ypos, drawn >>

vars == << args, engine, feed, stderr, pc, chart, twin >>

\* A line of the feed: the pattern it matches and the groups the pattern reads.
Line(kind, name, time, rv, dur, text) ==
  [kind |-> kind, name |-> name, time |-> time, retval |-> rv,
   duration |-> dur, text |-> text]

NoLine == Line("none", "", 0, 0, 0, "")

NoChart ==
  /\ max_par_probes = 0
  /\ slots = <<>>
  /\ todo = <<>>
  /\ ypos = 0
  /\ drawn = <<>>

Init ==
  /\ args \in [before_init : BOOLEAN]
  /\ initcalls = <<>>
  /\ probes = <<>>
  /\ init = None
  /\ version = "Unknown"
  /\ machine = "Unknown"
  /\ cmdline = "Unknown"
  /\ lineno = 0
  /\ line = NoLine
  /\ stderr = <<>>
  /\ pc = "ingest"
  /\ NoChart
  /\ twin = None

\* ------------------------------------------------------------ the second run

\* A second run of the script, started on the same file with the same command
\* line; each run draws its own colours.
TwinStart ==
  [initcalls |-> <<>>, probes |-> <<>>, init |-> None, version |-> "Unknown",
   machine |-> "Unknown", cmdline |-> "Unknown", pc |-> "ingest"]

\* The script started twice.
InitTwin ==
  /\ args \in [before_init : BOOLEAN]
  /\ initcalls = <<>>
  /\ probes = <<>>
  /\ init = None
  /\ version = "Unknown"
  /\ machine = "Unknown"
  /\ cmdline = "Unknown"
  /\ lineno = 0
  /\ line = NoLine
  /\ stderr = <<>>
  /\ pc = "ingest"
  /\ NoChart
  /\ twin = << TwinStart >>

\* ---------------------------------------------------------------- ingestion

\* The else branch of the calling pattern.
OnCalling(m, name, time, module, color) ==
  IF ~Has(m, name)
  THEN Put(m, Initcall(name, color, time, module))
  ELSE Put(m, addStart(Get(m, name), time))

\* The else branch of the returned pattern, for a name the map holds.
OnReturned(m, name, time, rv, dur) == Put(m, addEnd(Get(m, name), time, dur, rv))

\* The else branch of the probe pattern.
OnProbe(m, name, time, rv, dur, color) ==
  IF ~Has(m, name)
  THEN Put(m, Probe(name, color, time - dur, dur, rv))
  ELSE Put(m, addRun(Get(m, name), time - dur, time, dur, rv))

\* The loop body of the second run on line l: the branch the line's pattern
\* selects, with the colour that run draws for an entity it creates.
TwinAfter(t, l, color) ==
  IF t.pc # "ingest" THEN t
  ELSE CASE l.kind = "version" -> [t EXCEPT !.version = l.text]
         [] l.kind = "machine" -> [t EXCEPT !.machine = l.text]
         [] l.kind = "cmdline" -> [t EXCEPT !.cmdline = l.text]
         [] l.kind = "calling" ->
              [t EXCEPT !.initcalls = OnCalling(@, l.name, l.time, l.text, color)]
         [] l.kind = "returned" ->
              IF Has(t.initcalls, l.name)
              THEN [t EXCEPT !.initcalls = OnReturned(@, l.name, l.time, l.retval, l.duration)]
              ELSE t
         [] l.kind = "probe" ->
              [t EXCEPT !.probes = OnProbe(@, l.name, l.time, l.retval, l.duration, color)]
         [] l.kind = "init" ->
              IF t.init = None
              THEN [t EXCEPT !.init = << InitEntity(l.name, color, l.time) >>,
                             !.pc = IF args.before_init THEN "ingested" ELSE "ingest"]
              ELSE t
         [] l.kind = "unparsed" /\ l.name = "init" ->
              IF t.init = None
              THEN [t EXCEPT !.pc = IF args.before_init THEN "ingested" ELSE "ingest"]
              ELSE t
         [] OTHER -> t

\* The second run, when there is one, reads the line the first run reads.
TwinReads(l) ==
  IF twin = None
  THEN twin' = None
  ELSE \E color \in Colors : twin' = << TwinAfter(twin[1], l, color) >>

\* The second run reaches the end of the file with the first.
TwinEndOfFeed ==
  IF twin = None
  THEN twin' = None
  ELSE twin' = << [twin[1] EXCEPT !.pc = "ingested"] >>

\* for line in args.dmesg: lineno += 1
ReadLine(l) ==
  /\ pc = "ingest"
  /\ lineno < MaxLines
  /\ lineno' = lineno + 1
  /\ line' = l
  /\ TwinReads(l)

Diag(msg, what) == [msg |-> msg, what |-> what]

VersionSeen(text) ==
  /\ ReadLine(Line("version", "", 0, 0, 0, text))
  /\ version' = text
  /\ stderr' = <<>>
  /\ pc' = "ingest"
  /\ UNCHANGED << chart, args, initcalls, probes, init, machine, cmdline >>

MachineSeen(text) ==
  /\ ReadLine(Line("machine", "", 0, 0, 0, text))
  /\ machine' = text
  /\ stderr' = <<>>
  /\ pc' = "ingest"
  /\ UNCHANGED << chart, args, initcalls, probes, init, version, cmdline >>

CmdlineSeen(text) ==
  /\ ReadLine(Line("cmdline", "", 0, 0, 0, text))
  /\ cmdline' = text
  /\ stderr' = <<>>
  /\ pc' = "ingest"
  /\ UNCHANGED << chart, args, initcalls, probes, init, version, machine >>

\* "calling  name+0x0/0x0 [module] @ 1"
CallStarted(name, time, module, color) ==
  /\ ReadLine(Line("calling", name, time, 0, 0, module))
  /\ initcalls' = OnCalling(initcalls, name, time, module, color)
  /\ stderr' = <<>>
  /\ pc' = "ingest"
  /\ UNCHANGED << chart, args, probes, init, version, machine, cmdline >>

\* The returned branch recording the return of a name the map does not hold
\* as a Run of a new Initcall, instead of dropping it.
CallReturnedKeepingUnmatched(name, time, rv, dur) ==
  /\ ReadLine(Line("returned", name, time, rv, dur, ""))
  /\ IF ~Has(initcalls, name)
     THEN /\ stderr' = << Diag("Detected return for initcall, for which a call was never recorded", name) >>
          /\ initcalls' = Put(initcalls, [name |-> name, color |-> "c1",
                                          runs |-> << Run(-1, time, dur, rv) >>,
                                          module |-> ""])
     ELSE /\ initcalls' = OnReturned(initcalls, name, time, rv, dur)
          /\ stderr' = <<>>
  /\ pc' = "ingest"
  /\ UNCHANGED << chart, args, probes, init, version, machine, cmdline >>

\* "initcall name+0x0/0x0 returned rv after d usecs"
CallReturned(name, time, rv, dur) ==
  /\ ReadLine(Line("returned", name, time, rv, dur, ""))
  /\ IF ~Has(initcalls, name)
     THEN /\ stderr' = << Diag("Detected return for initcall, for which a call was never recorded", name) >>
          /\ UNCHANGED initcalls
     ELSE /\ initcalls' = OnReturned(initcalls, name, time, rv, dur)
          /\ stderr' = <<>>
  /\ pc' = "ingest"
  /\ UNCHANGED << chart, args, probes, init, version, machine, cmdline >>

\* The probe branch also closing the initcall that carries the probe's name.
ProbeReturnedClosingCall(name, time, rv, dur, color) ==
  /\ ReadLine(Line("probe", name, time, rv, dur, ""))
  /\ probes' = OnProbe(probes, name, time, rv, dur, color)
  /\ initcalls' = IF Has(initcalls, name)
                  THEN OnReturned(initcalls, name, time, rv, dur)
                  ELSE initcalls
  /\ stderr' = <<>>
  /\ pc' = "ingest"
  /\ UNCHANGED << chart, args, init, version, machine, cmdline >>

\* "probe of name returned rv after d usecs"
ProbeReturned(name, time, rv, dur, color) ==
  /\ ReadLine(Line("probe", name, time, rv, dur, ""))
  /\ probes' = OnProbe(probes, name, time, rv, dur, color)
  /\ stderr' = <<>>
  /\ pc' = "ingest"
  /\ UNCHANGED << chart, args, initcalls, init, version, machine, cmdline >>

\* The init branch without the "not init" test: every init line sets init.
InitStartedAgain(name, time, color) ==
  /\ ReadLine(Line("init", name, time, 0, 0, ""))
  /\ init' = << InitEntity(name, color, time) >>
  /\ pc' = IF args.before_init THEN "ingested" ELSE "ingest"
  /\ stderr' = <<>>
  /\ UNCHANGED << chart, args, initcalls, probes, version, machine, cmdline >>

\* "Run /sbin/init as init process": read only while init is not set.
InitStarted(name, time, color) ==
  /\ ReadLine(Line("init", name, time, 0, 0, ""))
  /\ IF init = None
     THEN /\ init' = << InitEntity(name, color, time) >>
          /\ pc' = IF args.before_init THEN "ingested" ELSE "ingest"
     ELSE /\ UNCHANGED init
          /\ pc' = "ingest"
  /\ stderr' = <<>>
  /\ UNCHANGED << chart, args, initcalls, probes, version, machine, cmdline >>

\* A line that holds the sentinel of a pattern and does not match the pattern
\* ("none": a line with no sentinel at all).  It falls through every branch.
UnmatchedLine(what) ==
  /\ ReadLine(Line("unmatched", what, 0, 0, 0, ""))
  /\ stderr' = IF what = "none" \/ (what = "init" /\ init # None)
               THEN <<>>
               ELSE << Diag("Failed matching line", what) >>
  /\ pc' = "ingest"
  /\ UNCHANGED << chart, args, engine >>

\* A line that matches the call, return or probe pattern and whose numbers do
\* not convert: the except branch reports it, finally: continue.
UnparsedLine(what) ==
  /\ ReadLine(Line("unparsed", what, 0, 0, 0, ""))
  /\ stderr' = << Diag("Failed parsing line", what) >>
  /\ pc' = "ingest"
  /\ UNCHANGED << chart, args, engine >>

\* A line that matches the init pattern and whose timestamp does not convert:
\* the finally clause of the init branch still breaks in before-init mode.
UnparsedInitLine ==
  /\ ReadLine(Line("unparsed", "init", 0, 0, 0, ""))
  /\ IF init = None
     THEN /\ stderr' = << Diag("Failed parsing line", "init") >>
          /\ pc' = IF args.before_init THEN "ingested" ELSE "ingest"
     ELSE /\ stderr' = <<>>
          /\ pc' = "ingest"
  /\ UNCHANGED << chart, args, engine >>

\* The feed is exhausted.
EndOfFeed ==
  /\ pc = "ingest"
  /\ pc' = "ingested"
  /\ stderr' = <<>>
  /\ TwinEndOfFeed
  /\ UNCHANGED << chart, args, engine, lineno, line >>

Sentinels == {"none", "call return", "init"}

Ingest ==
  \/ \E text \in Texts : VersionSeen(text)
  \/ \E text \in Texts : MachineSeen(text)
  \/ \E text \in Texts : CmdlineSeen(text)
  \/ \E name \in Names, time \in Times, module \in Modules, color \in Colors :
       CallStarted(name, time, module, color)
  \/ \E name \in Names, time \in Times, rv \in Retvals, dur \in Durations :
       CallReturned(name, time, rv, dur)
  \/ \E name \in ProbeNames, time \in Times, rv \in Retvals, dur \in Durations, color \in Colors :
       ProbeReturned(name, time, rv, dur, color)
  \/ \E name \in InitNames, time \in Times, color \in Colors :
       InitStarted(name, time, color)
  \/ \E what \in Sentinels : UnmatchedLine(what)
  \/ \E what \in {"call", "call return", "probe return"} : UnparsedLine(what)
  \/ UnparsedInitLine
  \/ EndOfFeed

\* ------------------------------------------------------------------- report

MaxOf(S) == CHOOSE x \in S : \A y \in S : y <= x

\* The report entered without the len(initcalls) == 0 test.
ReportWithoutInitcallsTest ==
  /\ pc = "ingested"
  /\ stderr' = <<>>
  /\ \E html \in BOOLEAN : pc' = IF html THEN "html_summary" ELSE "text"
  /\ UNCHANGED << args, twin, engine, feed, chart >>

\* len(initcalls) == 0: sys.exit(1); else the format the command line asks for
\* (args.html is read here, and nowhere before).
Report ==
  /\ pc = "ingested"
  /\ IF Len(initcalls) = 0
     THEN /\ stderr' = << Diag("No initcalls parsed", "") >>
          /\ pc' = "exit1"
     ELSE /\ stderr' = <<>>
          /\ \E html \in BOOLEAN : pc' = IF html THEN "html_summary" ELSE "text"
  /\ UNCHANGED << args, twin, engine, feed, chart >>

\* The uncaught AttributeError of init.last_start_time while init is None.
InitMissing == init = None

\* Plain text: the summary reads init.last_start_time once per initcall.
TextReport ==
  /\ pc = "text"
  /\ pc' = IF InitMissing THEN "error" ELSE "done"
  /\ stderr' = <<>>
  /\ UNCHANGED << args, twin, engine, feed, chart >>

\* HTML, "Identification & Summary": the table prints init.last_start_time.
HtmlSummary ==
  /\ pc = "html_summary"
  /\ pc' = IF InitMissing THEN "error" ELSE "html_bootchart"
  /\ stderr' = <<>>
  /\ UNCHANGED << args, twin, engine, feed, chart >>

\* len(list(filter(lambda k: k.running_at(t), probes.values())))
RunningAt(t) == Cardinality({k \in 1..Len(probes) : running_at(probes[k], t)})

\* "Determine the peak number of probes running in parallel": the largest,
\* over every run r of every probe, number of probes running at r.start_time.
PeakParallel ==
  MaxOf({0} \cup UNION { {RunningAt(probes[p].runs[r].start_time) :
                            r \in 1..Len(probes[p].runs)} : p \in 1..Len(probes) })

\* sorted(..., key=lambda k: k.first_start_time): stable, ascending.
RECURSIVE InsertByFirstStart(_, _)
InsertByFirstStart(s, e) ==
  IF s = <<>> THEN << e >>
  ELSE IF first_start_time(Head(s)) <= first_start_time(e)
       THEN << Head(s) >> \o InsertByFirstStart(Tail(s), e)
       ELSE << e >> \o s

RECURSIVE SortedByFirstStart(_)
SortedByFirstStart(m) ==
  IF m = <<>> THEN <<>>
  ELSE InsertByFirstStart(SortedByFirstStart(SubSeq(m, 1, Len(m) - 1)), Last(m))

\* for d in sorted(probes): for i, r in enumerate(d.runs): the pairs in order.
RECURSIVE PlotOrder(_)
PlotOrder(sorted) ==
  IF sorted = <<>> THEN <<>>
  ELSE [i \in 1..Len(Head(sorted).runs) |-> [name |-> Head(sorted).name, run |-> i]]
       \o PlotOrder(Tail(sorted))

\* HTML, "Boot chart": sizes the chart from max_par_probes, plots the scale
\* and the initcalls, and enters the probe plot when there are probes.
HtmlBootchart ==
  /\ pc = "html_bootchart"
  /\ max_par_probes' = PeakParallel
  /\ slots' = <<>>
  /\ drawn' = <<>>
  /\ ypos' = 0
  /\ IF Len(probes) > 0
     THEN /\ todo' = PlotOrder(SortedByFirstStart(probes))
          /\ pc' = "slots"
     ELSE /\ todo' = <<>>
          /\ pc' = "html_marker"
  /\ stderr' = <<>>
  /\ UNCHANGED << args, twin, engine, feed >>

\* slots.get(name, -1)
SlotOf(name) == IF name \in DOMAIN slots THEN slots[name] ELSE -1

\* The run the plot loop is at.
CurrentRun == Get(probes, Head(todo).name).runs[Head(todo).run]

\* The while condition without the lane test: some probe runs at
\* r.start_time, whatever lane it is recorded in.
LaneBusyWhateverLane(y) ==
  \E j \in 1..Len(probes) : running_at(probes[j], CurrentRun.start_time)

\* The while condition: some probe (any, the run's own included) runs at
\* r.start_time and is recorded in lane y.
LaneBusy(y) ==
  \E j \in 1..Len(probes) :
    running_at(probes[j], CurrentRun.start_time) /\ SlotOf(probes[j].name) = y

\* while ...: ypos = ypos + 1
SlotTaken ==
  /\ pc = "slots"
  /\ LaneBusy(ypos)
  /\ ypos' = ypos + 1
  /\ stderr' = <<>>
  /\ UNCHANGED << args, twin, engine, feed, max_par_probes, slots, todo, drawn, pc >>

\* slots[d.name] = ypos, the rectangle is printed, and the loops move on
\* (ypos = 0 opens the next iteration).
SlotFree ==
  /\ pc = "slots"
  /\ ~LaneBusy(ypos)
  /\ slots' = [n \in DOMAIN slots \cup {Head(todo).name} |->
                 IF n = Head(todo).name THEN ypos ELSE slots[n]]
  /\ drawn' = Append(drawn, [name |-> Head(todo).name, run |-> Head(todo).run,
                             ypos |-> ypos])
  /\ todo' = Tail(todo)
  /\ IF Tail(todo) = <<>>
     THEN /\ pc' = "html_marker"
          /\ UNCHANGED ypos
     ELSE /\ pc' = "slots"
          /\ ypos' = 0
  /\ stderr' = <<>>
  /\ UNCHANGED << args, twin, engine, feed, max_par_probes >>

\* "Plot init startup marker": reads init.last_start_time unless --before-init.
HtmlInitMarker ==
  /\ pc = "html_marker"
  /\ pc' = IF ~args.before_init /\ InitMissing THEN "error" ELSE "html_initcalls"
  /\ stderr' = <<>>
  /\ UNCHANGED << args, twin, engine, feed, chart >>

TotalTime(m) == SumSeq([i \in 1..Len(m) |-> duration(m[i])])

\* "Initcalls": each row divides by initcalls_total_time (ZeroDivisionError).
HtmlInitcalls ==
  /\ pc = "html_initcalls"
  /\ pc' = IF TotalTime(initcalls) = 0 THEN "error"
           ELSE IF Len(probes) > 0 THEN "html_probes" ELSE "done"
  /\ stderr' = <<>>
  /\ UNCHANGED << args, twin, engine, feed, chart >>

\* "Probes": each row reads init.last_start_time and divides by
\* probes_total_time.
HtmlProbes ==
  /\ pc = "html_probes"
  /\ pc' = IF InitMissing \/ TotalTime(probes) = 0 THEN "error" ELSE "done"
  /\ stderr' = <<>>
  /\ UNCHANGED << args, twin, engine, feed, chart >>

Plot ==
  \/ HtmlBootchart
  \/ SlotTaken
  \/ SlotFree
  \/ HtmlInitMarker
  \/ HtmlInitcalls
  \/ HtmlProbes

\* ------------------------------------------------------- the chart's inputs

PlotNames == << "a", "b", "c" >>

PlotLines ==
  [name : {PlotNames[i] : i \in 1..Len(PlotNames)},
   time : 0..MaxPlotTime, duration : 0..MaxPlotDur]

\* Probe names are opaque: a feed names its probes in order of first
\* appearance.
NamedInOrder(f) ==
  \A i \in 1..Len(f), k \in 2..Len(PlotNames) :
    f[i].name = PlotNames[k] => \E j \in 1..(i - 1) : f[j].name = PlotNames[k - 1]

\* The probes map a feed of probe lines leaves.
RECURSIVE ProbesAfter(_)
ProbesAfter(f) ==
  IF f = <<>> THEN <<>>
  ELSE OnProbe(ProbesAfter(SubSeq(f, 1, Len(f) - 1)),
               Last(f).name, Last(f).time, 0, Last(f).duration, "c1")

\* The initcalls map after "calling a" alone, and after its return as well.
PlotInitcalls ==
  { OnCalling(<<>>, "a", 0, "", "c1"),
    OnReturned(OnCalling(<<>>, "a", 0, "", "c1"), "a", 1, 0, 1) }

\* The script at the head of the boot chart: a feed of calls, probe lines
\* and the init line has been ingested, and the summary has been printed.
InitPlot ==
  /\ args \in [before_init : BOOLEAN]
  /\ initcalls \in PlotInitcalls
  /\ \E n \in 0..MaxPlotLines :
       \E f \in [1..n -> PlotLines] :
         /\ NamedInOrder(f)
         /\ probes = ProbesAfter(f)
         /\ lineno = Len(initcalls[1].runs) + n + 1
  /\ init = << InitEntity("/sbin/init", "c1", 1) >>
  /\ version = "Unknown"
  /\ machine = "Unknown"
  /\ cmdline = "Unknown"
  /\ line = Line("init", "/sbin/init", 1, 0, 0, "")
  /\ stderr = <<>>
  /\ pc = "html_bootchart"
  /\ NoChart
  /\ twin = None

\* --------------------------------------------------------------------- specs

\* The script from its first line to the head of the boot chart.
Next ==
  \/ Ingest
  \/ Report
  \/ TextReport
  \/ HtmlSummary

Spec == Init /\ [][Next]_vars

\* The boot chart and the tables, from the head of the boot chart on.
SpecPlot == InitPlot /\ [][Plot]_vars

\* Two runs of the script over one feed, line by line.
SpecTwin == InitTwin /\ [][Next]_vars

\* The whole script: from its first line, or from the head of the boot chart
\* of a feed with more probe lines, to its exit.
InitRun == Init \/ InitPlot

NextRun == Next \/ Plot

\* The script is one thread that runs until it exits: a step that can be
\* taken is taken.
SpecRun == InitRun /\ [][NextRun]_vars /\ WF_vars(NextRun)

\* ------------------------------------------------------------------ claims

\* A step that ingests one more line of the feed.
LineStep == lineno' = lineno + 1

ClosedRun(start_time, end_time, dur, rv) ==
  [start_time |-> start_time, end_time |-> end_time, duration |-> dur,
   retval |-> rv, ended |-> TRUE]

\* C1: when "calling n" has just created Initcall n (one Run) and the next
\* line is n's return, n is left with exactly one Run, closed, carrying the
\* call's start and the return's end, duration and return code; with return
\* code 0 it has neither failed nor is it running.
C1_CallThenReturnIsOneClosedRun ==
  [][ ( /\ LineStep
        /\ line.kind = "calling"
        /\ Len(Get(initcalls, line.name).runs) = 1
        /\ line'.kind = "returned"
        /\ line'.name = line.name )
      => LET e == Get(initcalls', line.name) IN
           /\ e.runs = << ClosedRun(line.time, line'.time, line'.duration, line'.retval) >>
           /\ (line'.retval = 0 => ~failed(e) /\ ~running(e)) ]_vars

\* The overlap the claims speak of: an instant strictly inside both runs.
Instants == (0 - MaxPlotDur)..MaxPlotTime

CommonInstant(r1, r2) ==
  \E t \in Instants :
    /\ r1.start_time < t /\ t < r1.end_time
    /\ r2.start_time < t /\ t < r2.end_time

\* The run a printed rectangle stands for.
DrawnRun(d) == Get(probes, d.name).runs[d.run]

PlotDone == pc \notin {"html_bootchart", "slots"}

\* C2: once every probe run is plotted, no two rectangles of distinct probes
\* in the same lane stand for runs with a common instant.
C2_NoLaneCollision ==
  PlotDone =>
    \A i, j \in 1..Len(drawn) :
      (drawn[i].name # drawn[j].name /\ drawn[i].ypos = drawn[j].ypos)
        => ~CommonInstant(DrawnRun(drawn[i]), DrawnRun(drawn[j]))

OpenRun(r) == ~r.ended

\* C3: a return line for a name the map holds closes the latest Run in place
\* when it is open (same length, same start, the line's end, duration and
\* return code); when it is closed it appends the closed Run
\* (-1, end, duration, return code) and the sequence grows by one.  The
\* earlier Runs stay as they are.
C3_AddEndClosesOrAppends ==
  [][ (LineStep /\ line'.kind = "returned" /\ Has(initcalls, line'.name))
      => LET old == Get(initcalls, line'.name).runs
             new == Get(initcalls', line'.name).runs
             n == Len(old)
         IN IF OpenRun(old[n])
            THEN /\ Len(new) = n
                 /\ new[n] = ClosedRun(old[n].start_time, line'.time,
                                       line'.duration, line'.retval)
                 /\ \A k \in 1..(n - 1) : new[k] = old[k]
            ELSE new = Append(old, ClosedRun(-1, line'.time, line'.duration,
                                             line'.retval)) ]_vars

\* C3, the case reached: a return has closed in place the Run that a second
\* "calling" line opened.
C3_Witness ==
  /\ line.kind = "returned"
  /\ Has(initcalls, line.name)
  /\ LET runs == Get(initcalls, line.name).runs IN
       /\ Len(runs) = 2
       /\ runs[2].start_time >= 0
       /\ runs[2].ended
       /\ runs[2].end_time = line.time

IsOpenAt(m, name, time) ==
  /\ Has(m, name)
  /\ OpenRun(Last(Get(m, name).runs))
  /\ Last(Get(m, name).runs).start_time = time
  /\ running(Get(m, name))

\* C4: right after a "calling" line the Initcall's latest Run is open, starts
\* at the line's time and the Initcall is running; it stays so until a return
\* line (or another calling line) for that name.
C4_CallStartedOpensRun ==
  [][ /\ (LineStep /\ line'.kind = "calling")
         => IsOpenAt(initcalls', line'.name, line'.time)
      /\ \A name \in Names :
           ( /\ line.kind = "calling" /\ line.name = name
             /\ IsOpenAt(initcalls, name, line.time)
             /\ ~(LineStep /\ line'.kind \in {"calling", "returned"} /\ line'.name = name) )
           => IsOpenAt(initcalls', name, line.time) ]_vars

\* C5: in before-init mode the engine state is that of the feed cut after its
\* first InitStarted: the loop never goes on past an InitStarted, nothing
\* changes the engine once the loop is left, and a line on which the loop is
\* left is the first InitStarted (the lines after it are never read, so a
\* loop left on any other line has cut short every feed that goes on to an
\* InitStarted).
C5_BeforeInitCutsAtInitStarted ==
  [][ args.before_init =>
        /\ (pc' = "ingest" => init' = None)
        /\ (pc = "ingest" /\ pc' # "ingest" /\ LineStep)
             => (line'.kind = "init" /\ init = None /\ init' # None)
        /\ (pc # "ingest" => UNCHANGED engine) ]_vars

\* C6: a return line for a name the initcalls map does not hold leaves both
\* maps, init and the three scalars as they are, writes the diagnostic, and
\* the loop goes on.
C6_UnmatchedReturnIsDropped ==
  [][ (LineStep /\ line'.kind = "returned" /\ ~Has(initcalls, line'.name))
      => /\ UNCHANGED engine
         /\ ~Has(initcalls', line'.name)
         /\ Len(stderr') = 1
         /\ stderr'[1].what = line'.name
         /\ pc' = "ingest" ]_vars

\* C6, the case reached: an unmatched return while the map holds another name.
C6_Witness ==
  /\ line.kind = "returned"
  /\ ~Has(initcalls, line.name)
  /\ Len(initcalls) > 0
  /\ stderr # <<>>
  /\ pc = "ingest"

\* C7: a probe line (name, t, rv, d) leaves the probe with the closed Run
\* (t - d, t, d, rv) as its only Run when the name was absent, and appended
\* to its untouched earlier Runs when it was present; with |rv| = 517 the
\* probe is deferred-pending and running, and has not failed.
C7_ProbeReturnedAddsClosedRun ==
  [][ (LineStep /\ line'.kind = "probe")
      => LET r == ClosedRun(line'.time - line'.duration, line'.time,
                            line'.duration, line'.retval)
             e == Get(probes', line'.name)
         IN /\ Has(probes', line'.name)
            /\ IF Has(probes, line'.name)
               THEN e.runs = Append(Get(probes, line'.name).runs, r)
               ELSE e.runs = << r >>
            /\ (abs(line'.retval) = 517
                  => deferred_probe_pending(e) /\ running(e) /\ ~failed(e)) ]_vars

\* C7, the case reached: a second, deferred (-517) return of the same probe.
C7_Witness ==
  /\ line.kind = "probe"
  /\ line.retval = -517
  /\ line.duration > 0
  /\ Has(probes, line.name)
  /\ Len(Get(probes, line.name).runs) = 2
  /\ Get(probes, line.name).runs[1].duration > 0

\* C8: after calling x, x's return, calling x again (the feed's three lines),
\* Initcall x has exactly two Runs, is running, and its total duration is the
\* one the return reported.
C8_ReentrantCallHasTwoRuns ==
  [][ ( /\ LineStep
        /\ lineno = 2
        /\ line.kind = "returned"
        /\ Has(initcalls, line.name)
        /\ line'.kind = "calling"
        /\ line'.name = line.name )
      => LET e == Get(initcalls', line.name) IN
           /\ Len(e.runs) = 2
           /\ running(e)
           /\ duration(e) = line.duration ]_vars

\* C9: with an initcall ingested and no init line, the report does not end in
\* an uncaught error.
C9_ReportWithoutInitCompletes ==
  (init = None /\ Len(initcalls) >= 1) => pc # "error"

\* C10: with probes, the peak-concurrency count that sizes the chart is the
\* largest lane a rectangle was printed in, plus one.
C10_PeakIsLargestLanePlusOne ==
  (PlotDone /\ Len(probes) > 0)
    => max_par_probes = MaxOf({drawn[i].ypos : i \in 1..Len(drawn)}) + 1

\* C11: during slot assignment a probe's recorded lane, once recorded, never
\* changes, and every rectangle of a probe is printed in the lane of the
\* probe's first rectangle.
C11_LaneIsEntitySticky ==
  [][ /\ \A n \in DOMAIN slots : n \in DOMAIN slots' /\ slots'[n] = slots[n]
      /\ \A i, j \in 1..Len(drawn') :
           drawn'[i].name = drawn'[j].name => drawn'[i].ypos = drawn'[j].ypos ]_vars

\* Lane y is held, at the start of the run the plot loop is at, by a probe
\* other than the run's own.
OtherBusy(y) ==
  \E j \in 1..Len(probes) :
    /\ probes[j].name # Head(todo).name
    /\ running_at(probes[j], CurrentRun.start_time)
    /\ SlotOf(probes[j].name) = y

\* C19: the lane a rectangle is printed in is the smallest lane that no other
\* probe recorded in it holds at the run's start; the run's own probe, with
\* its own Runs and its own recorded lane, blocks no lane.
C19_LaneIsSmallestFreeOfOthers ==
  [][ (pc = "slots" /\ todo' # todo)
      => LET y == Last(drawn').ypos IN
           /\ ~OtherBusy(y)
           /\ \A l \in 0..(y - 1) : OtherBusy(l) ]_vars

\* Every entity of the old map is in the new one at its place, with every
\* closed Run as it was and every open Run where it was.
RunsKept(old, new) ==
  /\ Len(new) >= Len(old)
  /\ \A i \in 1..Len(old) :
       /\ new[i].name = old[i].name
       /\ Len(new[i].runs) >= Len(old[i].runs)
       /\ \A k \in 1..Len(old[i].runs) :
            IF old[i].runs[k].ended
            THEN new[i].runs[k] = old[i].runs[k]
            ELSE new[i].runs[k].start_time = old[i].runs[k].start_time

\* C12: no step removes or reorders a Run or an entity, and a closed Run
\* keeps its start, end, duration and return code through every step (so it
\* is never closed a second time): later lines for its name append Runs.
C12_RunsAppendOnlyCloseOnce ==
  [][ /\ RunsKept(initcalls, initcalls')
      /\ RunsKept(probes, probes')
      /\ RunsKept(init, init') ]_vars

\* C12, the case reached: a call, its return and a second call have left a
\* closed Run followed by an open one.
C12_Witness ==
  /\ line.kind = "calling"
  /\ Has(initcalls, line.name)
  /\ LET runs == Get(initcalls, line.name).runs IN
       /\ Len(runs) = 3
       /\ runs[2].ended
       /\ runs[2].duration > 0
       /\ ~runs[3].ended

\* The entities of the engine: both maps and the init singleton.
Entities ==
  {initcalls[i] : i \in 1..Len(initcalls)} \cup {probes[i] : i \in 1..Len(probes)}
    \cup {init[i] : i \in 1..Len(init)}

\* C13: for every entity the wasted time is at most the total duration.
C13_WastedWithinTotal ==
  \A e \in Entities : wasted_time(e) <= duration(e)

\* C13, the case reached: a probe with a wasted Run and a Run that is not.
C13_Witness ==
  \E i \in 1..Len(probes) :
    0 < wasted_time(probes[i]) /\ wasted_time(probes[i]) < duration(probes[i])

Deferred(rv) == rv \in {ERRCODE_PROBE_DEFER, -ERRCODE_PROBE_DEFER}

\* C14: a closed Run whose return code is 517 or -517 is running and has not
\* failed, and a probe line raises the probe's deferred count by one exactly
\* when its return code is 517 or -517.
C14_DeferredIsSignInsensitive ==
  [][ /\ \A e \in Entities : \A k \in 1..Len(e.runs) :
           (e.runs[k].ended /\ Deferred(e.runs[k].retval))
             => RunRunning(e.runs[k]) /\ ~RunFailed(e.runs[k])
      /\ (LineStep /\ line'.kind = "probe")
           => LET before == IF Has(probes, line'.name)
                            THEN num_deferred_probes(Get(probes, line'.name))
                            ELSE 0
              IN num_deferred_probes(Get(probes', line'.name))
                   = before + (IF Deferred(line'.retval) THEN 1 ELSE 0) ]_vars

\* C14, the case reached: a probe deferred once with 517 and once with -517.
C14_Witness ==
  \E i \in 1..Len(probes) :
    /\ Len(probes[i].runs) = 3
    /\ probes[i].runs[1].retval = 517
    /\ probes[i].runs[2].retval = -22
    /\ probes[i].runs[3].retval = -517
    /\ num_deferred_probes(probes[i]) = 2

\* C15: every entity of the initcalls map, of the probes map and the init
\* singleton has at least one Run.
C15_RunsNonEmpty ==
  \A e \in Entities : Len(e.runs) >= 1

\* C15, the case reached: an initcall, a probe and init are all present.
C15_Witness ==
  /\ Len(initcalls) > 0
  /\ Len(probes) > 0
  /\ init # None

\* A map (or init) without the colour tags of its entities.
Uncolored(m) ==
  [i \in 1..Len(m) |-> [f \in (DOMAIN m[i]) \ {"color"} |-> m[i][f]]]

\* C16: two runs over the same feed in the same mode hold, after every line
\* and at the end, the same initcalls and probes maps (same keys in the same
\* order, same Runs), the same init and the same three scalars, and leave the
\* loop together, whatever colours each run draws: they differ by colour
\* tags at most.
C16_IngestionIsDeterministic ==
  twin # None =>
    /\ Uncolored(twin[1].initcalls) = Uncolored(initcalls)
    /\ Uncolored(twin[1].probes) = Uncolored(probes)
    /\ Uncolored(twin[1].init) = Uncolored(init)
    /\ twin[1].version = version
    /\ twin[1].machine = machine
    /\ twin[1].cmdline = cmdline
    /\ (twin[1].pc = "ingest") <=> (pc = "ingest")

\* C16, the case reached: both runs have ended with an initcall, a probe and
\* init, and drew different colours for each of them.
C16_Witness ==
  /\ twin # None
  /\ pc = "ingested"
  /\ Len(initcalls) > 0 /\ Len(probes) > 0 /\ init # None
  /\ twin[1].initcalls[1].color # initcalls[1].color
  /\ twin[1].probes[1].color # probes[1].color
  /\ twin[1].init[1].color # init[1].color

\* C17: a run whose initcalls map is empty when ingestion stops goes to the
\* fatal exit and nowhere else, nothing but that leads to the fatal exit, a
\* run with initcalls goes on to its report, and no call, return, probe or
\* repeated init line takes the loop out of ingestion.
C17_OnlyEmptyInitcallsIsFatal ==
  [][ /\ (pc = "ingested" /\ Len(initcalls) = 0) => pc' = "exit1"
      /\ pc' = "exit1" => (pc = "ingested" /\ Len(initcalls) = 0)
      /\ (pc = "ingested" /\ Len(initcalls) > 0) => pc' \in {"text", "html_summary"}
      /\ LineStep => pc' \in {"ingest", "ingested"}
      /\ ( /\ LineStep
           /\ \/ line'.kind \in {"calling", "returned", "probe"}
              \/ (line'.kind = "init" /\ init # None) )
         => (pc' = "ingest" /\ Len(initcalls') >= Len(initcalls)) ]_vars

\* C17, the case reached: the fatal exit after a feed of probe and init lines.
C17_Witness ==
  /\ pc = "exit1"
  /\ Len(probes) > 0
  /\ init # None

\* C18: init is absent until an init line is read; the first one sets it to
\* the line's name and time and leaves the rest of the engine alone; every
\* later init line leaves the whole engine as it is, and nothing else ever
\* sets or changes init.
C18_InitSetAtMostOnce ==
  [][ /\ (LineStep /\ line'.kind = "init" /\ init = None)
           => /\ Len(init') = 1
              /\ init'[1].name = line'.name
              /\ last_start_time(init'[1]) = line'.time
              /\ UNCHANGED << initcalls, probes, version, machine, cmdline >>
      /\ (LineStep /\ line'.kind = "init" /\ init # None) => UNCHANGED engine
      /\ init # None => init' = init
      /\ (init = None /\ init' # None) => (LineStep /\ line'.kind = "init") ]_vars

\* C18, the case reached: a second init line, with another time, was ignored.
C18_Witness ==
  /\ line.kind = "init"
  /\ init # None
  /\ last_start_time(init[1]) # line.time
  /\ lineno >= 2

\* C20: a call or return line leaves the probes map, init and the three
\* scalars as they are, and what it does to the initcalls map does not
\* depend on the name being a probe's (a new name gets a fresh one-Run
\* Initcall, a return of an uncalled name is dropped); a probe line leaves
\* the initcalls map, init and the three scalars as they are.
C20_CategoriesAreIndependent ==
  [][ /\ (LineStep /\ line'.kind \in {"calling", "returned"})
           => UNCHANGED << probes, init, version, machine, cmdline >>
      /\ (LineStep /\ line'.kind = "calling" /\ ~Has(initcalls, line'.name))
           => /\ Len(Get(initcalls', line'.name).runs) = 1
              /\ first_start_time(Get(initcalls', line'.name)) = line'.time
      /\ (LineStep /\ line'.kind = "returned" /\ ~Has(initcalls, line'.name))
           => UNCHANGED initcalls
      /\ (LineStep /\ line'.kind = "probe")
           => UNCHANGED << initcalls, init, version, machine, cmdline >> ]_vars

\* C20, the case reached: a probe line for a name the initcalls map holds too.
C20_Witness ==
  /\ line.kind = "probe"
  /\ Has(initcalls, line.name)
  /\ Has(probes, line.name)
  /\ Len(Get(probes, line.name).runs) = 2

\* The script has exited: its output is complete, or it has stopped on the
\* fatal exit or on an uncaught error.
Terminated == pc \in {"done", "error", "exit1"}

\* C21: the loop reads the lines one by one, each once (the line count only
\* ever grows, by one, inside the loop) and is never entered again once left;
\* the lane search never passes the number of probes, neither while it runs
\* nor in a rectangle printed; and the script reaches its exit.
C21_ProcessingTerminates ==
  /\ [][ /\ lineno' # lineno => (pc = "ingest" /\ lineno' = lineno + 1)
         /\ pc # "ingest" => pc' # "ingest" ]_vars
  /\ [](pc = "slots" => ypos <= Len(probes))
  /\ [](\A i \in 1..Len(drawn) : drawn[i].ypos <= Len(probes))
  /\ <>Terminated

\* C21, the case reached: the script has exited after a lane search that
\* went up to the number of probes.
C21_Witness ==
  /\ Terminated
  /\ Len(probes) >= 1
  /\ \E i \in 1..Len(drawn) : drawn[i].ypos = Len(probes)

====
